---------------------------- MODULE Spec2Model ----------------------------
(***************************************************************************)
(* Camera calibration driver ("not super far gone.cpp"): the plane         *)
(* unifier getIntPoints, the box correspondence builder arucoDetect, the   *)
(* stereo point matcher getSharedPoints and the session driver             *)
(* calibrateWithSettings.                                                  *)
(*                                                                         *)
(* Conventions.  C++ vectors are 0-based, TLA+ sequences 1-based: the      *)
(* element the code calls v[k] is v[k+1] here; variables that hold a code  *)
(* index (i, vectorIndex) keep the code's value.  A Point3f coordinate is  *)
(* an exact fraction <<n, d>> in lowest terms (d > 0): the inputs are      *)
(* integers of magnitude <= 2000 and the only arithmetic is one addition   *)
(* and one division by 125, for which float division is injective, so      *)
(* equality and integrality of the float results are those of the exact    *)
(* fractions.                                                              *)
(***************************************************************************)
EXTENDS Integers, Sequences, FiniteSets, TLC

VARIABLES
  pc,            \* which operation has run / position in calibrateWithSettings
  points,        \* getIntPoints: the input vector<Point3f>
  plane,         \* getIntPoints: s.planeList[index]
  intPoints,     \* getIntPoints: the returned vector
  unifyOutcome,  \* getIntPoints: "returned" or "error"
  inCal,         \* intrinsicCalibration of camera A (imagePoints, objectPoints)
  inCal2,        \* intrinsicCalibration of camera B
  origCal,       \* inCal as it was when getSharedPoints was entered
  origCal2,      \* inCal2 as it was when getSharedPoints was entered
  s,             \* the Settings
  i,             \* calibrateWithSettings: the loop counter (image list position)
  vectorIndex,   \* calibrateWithSettings: index of the current image's set
  currentInCal,  \* calibrateWithSettings: "inCal" or "inCal2"
  stopAt,        \* first image list position that cannot be read (nImages if none)
  detections,    \* what the detector returned for each image so far, by position
  detectCalls,   \* detector invocations of the last arucoDetect
  calls,         \* the solver / output calls made so far, in order
  cfg,           \* what the settings file and the files it names hold
  goodInput,     \* Settings::goodInput
  residuals,     \* per image, the squared distance of each observed point to its reprojection
  reprojErrs,    \* intrinsicCalibration::reprojErrs
  totalAvgErr,   \* intrinsicCalibration::totalAvgErr
  flag,          \* Settings::flag
  calibrateFlags \* the flags argument of the last calibrateCamera call

vars == <<pc, points, plane, intPoints, unifyOutcome, inCal, inCal2, origCal, origCal2,
          s, i, vectorIndex, currentInCal, stopAt, detections, detectCalls, calls,
          cfg, goodInput, residuals, reprojErrs, totalAvgErr, flag, calibrateFlags>>

unifyVars == <<points, plane, intPoints, unifyOutcome>>
calVars == <<inCal, inCal2, origCal, origCal2>>
errVars == <<residuals, reprojErrs, totalAvgErr>>
flagVars == <<flag, calibrateFlags>>
driverVars == <<s, i, vectorIndex, currentInCal, stopAt, detections, detectCalls, calls,
                cfg, goodInput>>

---------------------------------------------------------------------------
(* Bounds of the model *)

\* longest point list handed to getIntPoints
MaxUnifyLen == 2
\* images in each collection handed to getSharedPoints
MatchImages == 2
\* most correspondences one camera holds over all its images in getSharedPoints
MaxMatchPts == 2
\* most markers the detector returns at one invocation
MaxDetected == 2
\* largest vectorIndex arucoDetect is called with on its own
MaxDetectIndex == 1
\* longest image list of a run of calibrateWithSettings
MaxImages == 4

\* every sequence over S of length at most n
BoundedSeq(S, n) == UNION {[1..m -> S] : m \in 0..n}

Range(f) == {f[x] : x \in DOMAIN f}

RECURSIVE SumLen(_, _)
SumLen(c, k) == IF k > Len(c) THEN 0 ELSE Len(c[k]) + SumLen(c, k + 1)

---------------------------------------------------------------------------
(* Exact fractions *)

Abs(n) == IF n < 0 THEN -n ELSE n

RECURSIVE GCD(_, _)
GCD(a, b) == IF b = 0 THEN a ELSE GCD(b, a % b)

\* n / d as a fraction in lowest terms, d > 0
Frac(n, d) ==
  LET g == GCD(Abs(n), d)
  IN  IF n = 0 THEN <<0, 1>> ELSE <<n \div g, d \div g>>

IsInteger(f) == f[2] = 1
IsNonNegative(f) == f[1] >= 0

\* the literal 0 of the transforms
Zero == <<0, 1>>

---------------------------------------------------------------------------
(* getIntPoints *)

\* the offset added to a local coordinate
Offset == 1000
\* the denominator every shifted coordinate is divided by
Denominator == 125

ValidPlanes == {"XY", "YZ", "XZ"}

\* (c + 1000) / 125, a float division
Shift(c) == Frac(c + Offset, Denominator)

\* faulty variant: the sign of the YZ / XZ third coordinate is not flipped
getIntPointUnflipped(p, pl) ==
  CASE pl = "XY" -> <<Shift(p[1]), Shift(p[2]), Zero>>
    [] pl = "YZ" -> <<Zero, Shift(p[2]), Shift(p[1])>>
    [] pl = "XZ" -> <<Shift(p[1]), Zero, Shift(p[2])>>

\* one push_back of the case of plane pl (pl is a valid label)
getIntPoint(p, pl) ==
  CASE pl = "XY" -> <<Shift(p[1]), Shift(p[2]), Zero>>
    [] pl = "YZ" -> <<Zero, Shift(p[2]), Shift(-p[1])>>
    [] pl = "XZ" -> <<Shift(p[1]), Zero, Shift(-p[2])>>

\* the switch has no default: with an unrecognised label intPoints stays empty
getIntPoints(pts, pl) ==
  IF pl \in ValidPlanes
    THEN [k \in 1..Len(pts) |-> getIntPoint(pts[k], pl)]
    ELSE <<>>


---------------------------------------------------------------------------
(* getSharedPoints *)

\* faulty variant: the scan of oPoints2 starts at its second element
sharedFromSecond(p, oPoints2) ==
  IF \E n \in 2..Len(oPoints2) : oPoints2[n] = p
    THEN CHOOSE n \in 2..Len(oPoints2) :
           /\ oPoints2[n] = p
           /\ \A m \in 2..(n - 1) : oPoints2[m] # p
    ELSE Len(oPoints2) + 1

\* for (shared=0; shared<size; shared++) if (p == oPoints2->at(shared)) break;
\* the position of the first element of oPoints2 equal to p, Len + 1 if none
shared(p, oPoints2) ==
  IF \E n \in 1..Len(oPoints2) : oPoints2[n] = p
    THEN CHOOSE n \in 1..Len(oPoints2) :
           /\ oPoints2[n] = p
           /\ \A m \in 1..(n - 1) : oPoints2[m] # p
    ELSE Len(oPoints2) + 1

\* the positions j of oPoints for which the inner scan ends before the end
\* of oPoints2, in the order of the loop over j
RECURSIVE sharedPositions(_, _, _)
sharedPositions(oPoints, oPoints2, j) ==
  IF j > Len(oPoints) THEN <<>>
  ELSE (IF shared(oPoints[j], oPoints2) # Len(oPoints2) + 1 THEN <<j>> ELSE <<>>)
       \o sharedPositions(oPoints, oPoints2, j + 1)

\* faulty variant: camera B's image point is taken at A's position j
pickImagePoint2AtJ(iPoints2, sh, j) ==
  iPoints2[IF j <= Len(iPoints2) THEN j ELSE sh]

\* sharedImagePoints2.push_back(iPoints2->at(shared))
pickImagePoint2(iPoints2, sh, j) == iPoints2[sh]

\* faulty variant: camera B keeps its own shared object points, in its own order
getSharedPointsImageOwnOrder(oPoints, iPoints, oPoints2, iPoints2) ==
  LET js == sharedPositions(oPoints, oPoints2, 1)
      own == SelectSeq(oPoints2, LAMBDA q : shared(q, oPoints) # Len(oPoints) + 1)
  IN  [oPoints  |-> [k \in 1..Len(js) |-> oPoints[js[k]]],
       oPoints2 |-> own,
       iPoints  |-> [k \in 1..Len(js) |-> iPoints[js[k]]],
       iPoints2 |-> [k \in 1..Len(js) |->
                       pickImagePoint2(iPoints2, shared(oPoints[js[k]], oPoints2), js[k])]]

\* the body of the loop over i: the four vectors of image i afterwards
getSharedPointsImage(oPoints, iPoints, oPoints2, iPoints2) ==
  LET js == sharedPositions(oPoints, oPoints2, 1)
      sharedObjectPoints == [k \in 1..Len(js) |-> oPoints[js[k]]]
      sharedImagePoints  == [k \in 1..Len(js) |-> iPoints[js[k]]]
      sharedImagePoints2 == [k \in 1..Len(js) |->
                               pickImagePoint2(iPoints2, shared(oPoints[js[k]], oPoints2), js[k])]
  IN  [oPoints  |-> sharedObjectPoints,
       oPoints2 |-> sharedObjectPoints,
       iPoints  |-> sharedImagePoints,
       iPoints2 |-> sharedImagePoints2]

\* the two calibrations after the loop over every i < inCal.objectPoints.size()
\* (both collections hold at least that many images)
getSharedPoints(c, c2) ==
  LET n == Len(c.objectPoints)
      r(k) == getSharedPointsImage(c.objectPoints[k], c.imagePoints[k],
                                   c2.objectPoints[k], c2.imagePoints[k])
  IN  [inCal  |-> [c  EXCEPT !.objectPoints = [k \in 1..Len(c.objectPoints) |->
                                                 IF k <= n THEN r(k).oPoints ELSE c.objectPoints[k]],
                             !.imagePoints  = [k \in 1..Len(c.imagePoints) |->
                                                 IF k <= n THEN r(k).iPoints ELSE c.imagePoints[k]]],
       inCal2 |-> [c2 EXCEPT !.objectPoints = [k \in 1..Len(c2.objectPoints) |->
                                                 IF k <= n THEN r(k).oPoints2 ELSE c2.objectPoints[k]],
                             !.imagePoints  = [k \in 1..Len(c2.imagePoints) |->
                                                 IF k <= n THEN r(k).iPoints2 ELSE c2.imagePoints[k]]]]

---------------------------------------------------------------------------
(* calcArucoCorners, arucoDetect *)

\* corners of a marker: for(int j=0;j<4;j++)
CornersPerMarker == 4

\* for(j=0; j<map.size() && markerIndex==-1; j++) if (map[j].id==id) markerIndex=j;
\* the position of the first map entry with this id, 0 (the code's -1) if none
markerIndex(map, id) ==
  IF \E n \in 1..Len(map) : map[n].id = id
    THEN CHOOSE n \in 1..Len(map) :
           /\ map[n].id = id
           /\ \A m \in 1..(n - 1) : map[m].id # id
    ELSE 0

\* the two buffers after the loop over the detected markers from position n on
RECURSIVE calcArucoCornersFrom(_, _, _)
calcArucoCornersFrom(markers_detected, map, n) ==
  IF n > Len(markers_detected)
    THEN [imagePointsBuf |-> <<>>, objectPointsBuf |-> <<>>]
    ELSE LET mi == markerIndex(map, markers_detected[n].id)
             rest == calcArucoCornersFrom(markers_detected, map, n + 1)
         IN  IF mi # 0
               THEN [imagePointsBuf  |->
                       [c \in 1..CornersPerMarker |-> markers_detected[n].corners[c]]
                         \o rest.imagePointsBuf,
                     objectPointsBuf |->
                       [c \in 1..CornersPerMarker |-> map[mi].pts[c]]
                         \o rest.objectPointsBuf]
               ELSE rest

\* both buffers are cleared, then filled marker by marker
calcArucoCorners(markers_detected, map) ==
  calcArucoCornersFrom(markers_detected, map, 1)

\* faulty variant: the 2D points are pushed outside the test
appendBuffersImageAlways(st, img, obj, imagePointsBuf, objectPointsBuf) ==
  IF Len(objectPointsBuf) > 0 /\ st.mode # "PREVIEW"
    THEN [img |-> img \o imagePointsBuf, obj |-> obj \o objectPointsBuf]
    ELSE [img |-> img \o imagePointsBuf, obj |-> obj]

\* if(objectPointsBuf.size()>0 && s.mode != Settings::PREVIEW) push every
\* point of both buffers onto the image's two vectors
appendBuffers(st, img, obj, imagePointsBuf, objectPointsBuf) ==
  IF Len(objectPointsBuf) > 0 /\ st.mode # "PREVIEW"
    THEN [img |-> img \o imagePointsBuf, obj |-> obj \o objectPointsBuf]
    ELSE [img |-> img, obj |-> obj]

\* the loop over the configs from config j on: det[j] is what the detector
\* returns at its j-th invocation; img and obj are the image's two vectors,
\* n the detector invocations so far
RECURSIVE arucoDetectFrom(_, _, _, _, _, _)
arucoDetectFrom(st, det, img, obj, n, j) ==
  IF j > st.nConfigs
    THEN [img |-> img, obj |-> obj, n |-> n]
    ELSE LET bufs == calcArucoCorners(det[j], st.configList[j])
             objectPointsBuf == getIntPoints(bufs.objectPointsBuf, st.planeList[j])
             after == appendBuffers(st, img, obj, bufs.imagePointsBuf, objectPointsBuf)
         IN  arucoDetectFrom(st, det, after.img, after.obj, n + 1, j + 1)

\* the calibration after arucoDetect on the set at vectorIndex (which exists),
\* and the number of detector invocations
arucoDetect(st, det, cal, vIdx) ==
  LET r == arucoDetectFrom(st, det, cal.imagePoints[vIdx + 1],
                           cal.objectPoints[vIdx + 1], 0, 1)
  IN  [cal |-> IF st.mode # "PREVIEW"
                 THEN [cal EXCEPT !.imagePoints[vIdx + 1] = r.img,
                                  !.objectPoints[vIdx + 1] = r.obj]
                 ELSE cal,
       n |-> r.n]

---------------------------------------------------------------------------
(* States in which an operation has nothing to do with a variable *)

\* an intrinsicCalibration with no image
EmptyCal == [imagePoints |-> <<>>, objectPoints |-> <<>>]

UnifyIdle ==
  /\ points = <<>>
  /\ plane = "XY"
  /\ intPoints = <<>>
  /\ unifyOutcome = "none"

\* a double that is not a number
NaN == [nan |-> TRUE, sq |-> Zero]

ErrIdle ==
  /\ residuals = <<>>
  /\ reprojErrs = <<>>
  /\ totalAvgErr = NaN

FlagIdle ==
  /\ flag = 0
  /\ calibrateFlags = 0

CalIdle ==
  /\ inCal = EmptyCal
  /\ inCal2 = EmptyCal
  /\ origCal = EmptyCal
  /\ origCal2 = EmptyCal

\* a Settings no operation reads
NoSettings ==
  [mode |-> "INTRINSIC", calibrationPattern |-> "CHESSBOARD", nImages |-> 0,
   nConfigs |-> 0, configList |-> <<>>, planeList |-> <<>>,
   useIntrinsicInput |-> FALSE, boardSize |-> [width |-> 0, height |-> 0],
   squareSize |-> 0]

\* a settings file no operation reads
NoConfig == [modeInput |-> "", patternInput |-> ""]

DriverIdle ==
  /\ s = NoSettings
  /\ i = 0
  /\ vectorIndex = -1
  /\ currentInCal = "inCal"
  /\ stopAt = 0
  /\ detections = <<>>
  /\ detectCalls = 0
  /\ calls = <<>>
  /\ cfg = NoConfig
  /\ goodInput = FALSE

---------------------------------------------------------------------------
(* getIntPoints on every bounded input *)

\* local coordinates of a marker map: integers within [-1000, 1000]
LocalXY == {-1000, 0, 1, 1000}
LocalZ == {0, 5}
LocalPoints == LocalXY \X LocalXY \X LocalZ

\* plane labels a config list file can hold: the three planes and another string
Labels == ValidPlanes \cup {"ZZ"}

InitUnify ==
  /\ pc = "unify_call"
  /\ points \in BoundedSeq(LocalPoints, MaxUnifyLen)
  /\ plane \in Labels
  /\ intPoints = <<>>
  /\ unifyOutcome = "none"
  /\ CalIdle
  /\ DriverIdle
  /\ ErrIdle
  /\ FlagIdle

\* objectPointsBuf = getIntPoints(s, objectPointsBuf, j): the call returns a
\* vector on every path, there is no throw and no error return
GetIntPointsCall ==
  /\ pc = "unify_call"
  /\ intPoints' = getIntPoints(points, plane)
  /\ unifyOutcome' = "returned"
  /\ pc' = "unify_done"
  /\ UNCHANGED <<points, plane>>
  /\ UNCHANGED calVars
  /\ UNCHANGED driverVars
  /\ UNCHANGED errVars
  /\ UNCHANGED flagVars

NextUnify == GetIntPointsCall

SpecUnify == InitUnify /\ [][NextUnify]_vars

---------------------------------------------------------------------------
(* getSharedPoints on every bounded pair of collections *)

\* unified box points: the local origin seen on plane XY and on plane YZ
BoxPoints == {getIntPoint(<<0, 0, 0>>, "XY"), getIntPoint(<<0, 0, 0>>, "YZ")}
\* pixel positions
Pixels == {"u", "v"}
\* one correspondence: <<3D point, 2D point>>
Pairs == BoxPoints \X Pixels

\* the collections of one camera, as sequences of correspondences
PairCollections ==
  {c \in [1..MatchImages -> BoundedSeq(Pairs, MaxMatchPts)] : SumLen(c, 1) <= MaxMatchPts}

\* the intrinsicCalibration holding the correspondences of c
CalOf(c) ==
  [imagePoints  |-> [k \in 1..Len(c) |-> [n \in 1..Len(c[k]) |-> c[k][n][2]]],
   objectPoints |-> [k \in 1..Len(c) |-> [n \in 1..Len(c[k]) |-> c[k][n][1]]]]

\* every intrinsicCalibration handed to getSharedPoints
MatchInputs == {CalOf(c) : c \in PairCollections}

InitMatch ==
  /\ pc = "match_call"
  /\ inCal \in MatchInputs
  /\ inCal2 \in MatchInputs
  /\ origCal = inCal
  /\ origCal2 = inCal2
  /\ UnifyIdle
  /\ ErrIdle
  /\ FlagIdle
  /\ DriverIdle

GetSharedPointsCall ==
  /\ pc = "match_call"
  /\ LET r == getSharedPoints(inCal, inCal2)
     IN  /\ inCal' = r.inCal
         /\ inCal2' = r.inCal2
  /\ pc' = "match_done"
  /\ UNCHANGED <<origCal, origCal2>>
  /\ UNCHANGED unifyVars
  /\ UNCHANGED errVars
  /\ UNCHANGED flagVars
  /\ UNCHANGED driverVars

NextMatch == GetSharedPointsCall

SpecMatch == InitMatch /\ [][NextMatch]_vars

---------------------------------------------------------------------------
(* The marker maps and the detector *)

MarkerIds == {1, 2, 3}

\* the four corners of marker m in its map's local frame
LocalCorners(m) ==
  LET x == 250 * (m - 1) - 1000
  IN  <<<<x, 125, 0>>, <<x + 125, 125, 0>>, <<x + 125, 0, 0>>, <<x, 0, 0>>>>

MapEntry(m) == [id |-> m, pts |-> LocalCorners(m)]

\* the three marker maps of a box rig; a single-map pattern uses the first
BoxMaps ==
  <<<<MapEntry(1), MapEntry(2)>>,
    <<MapEntry(2), MapEntry(3)>>,
    <<MapEntry(3), MapEntry(1)>>>>

\* marker m as the detector reports it in the image at list position pos:
\* its id and the pixels of its four corners
MarkerAt(pos, m) ==
  [id |-> m, corners |-> [c \in 1..CornersPerMarker |-> <<pos, m, c>>]]

\* sequences without repetition
Distinct(q) == \A a, b \in 1..Len(q) : a # b => q[a] # q[b]

\* what one invocation of the detector can return for the image at pos
DetectorOutputs(pos) ==
  {[n \in 1..Len(ids) |-> MarkerAt(pos, ids[n])] :
     ids \in {q \in BoundedSeq(MarkerIds, MaxDetected) : Distinct(q)}}

\* a collection of n empty sets: imagePoints.resize(n), objectPoints.resize(n)
Resized(n) ==
  [imagePoints |-> [k \in 1..n |-> <<>>], objectPoints |-> [k \in 1..n |-> <<>>]]

\* the chessboard of the settings: inner corners per row and per column
Board == [width |-> 2, height |-> 1]

---------------------------------------------------------------------------
(* arucoDetect on one image, for every bounded configuration and detection *)

CalibrationModes == {"INTRINSIC", "STEREO"}

\* validated marker settings: one config for ARUCO_SINGLE, three for ARUCO_BOX;
\* the plane labels are read from the config list file as they are
DetectSettings ==
  {[mode |-> m, calibrationPattern |-> IF n = 1 THEN "ARUCO_SINGLE" ELSE "ARUCO_BOX",
    nImages |-> MaxDetectIndex + 1, nConfigs |-> n,
    configList |-> SubSeq(BoxMaps, 1, n), planeList |-> pl,
    useIntrinsicInput |-> TRUE, boardSize |-> Board, squareSize |-> 1] :
     m \in {"INTRINSIC"}, n \in {1, 3}, pl \in BoundedSeq(Labels, 3)}

InitDetect ==
  /\ pc = "detect_call"
  /\ s \in {st \in DetectSettings : Len(st.planeList) = st.nConfigs}
  /\ vectorIndex \in 0..MaxDetectIndex
  /\ i = vectorIndex
  /\ inCal = Resized(MaxDetectIndex + 1)
  /\ inCal2 = Resized(MaxDetectIndex + 1)
  /\ origCal = EmptyCal
  /\ origCal2 = EmptyCal
  /\ currentInCal = "inCal"
  /\ stopAt = MaxDetectIndex + 1
  /\ detections = <<>>
  /\ detectCalls = 0
  /\ calls = <<>>
  /\ cfg = NoConfig
  /\ goodInput = TRUE
  /\ UnifyIdle
  /\ ErrIdle
  /\ FlagIdle

\* arucoDetect(s, img, inCal, vectorIndex) with the detector returning det[j]
\* at its j-th invocation
ArucoDetectCall ==
  /\ pc = "detect_call"
  /\ \E det \in [1..s.nConfigs -> DetectorOutputs(i)] :
       LET r == arucoDetect(s, det, inCal, vectorIndex)
       IN  /\ inCal' = r.cal
           /\ detectCalls' = r.n
           /\ detections' = <<det>>
  /\ pc' = "detect_done"
  /\ UNCHANGED <<inCal2, origCal, origCal2, s, i, vectorIndex, currentInCal, stopAt, calls,
                 cfg, goodInput>>
  /\ UNCHANGED unifyVars
  /\ UNCHANGED errVars
  /\ UNCHANGED flagVars

NextDetect == ArucoDetectCall

SpecDetect == InitDetect /\ [][NextDetect]_vars

---------------------------------------------------------------------------
(* chessboardDetect *)

\* the 3D corners of the board, row by row: (j*squareSize, i*squareSize, 0)
calcChessboardCorners(st) ==
  [k \in 1..(st.boardSize.width * st.boardSize.height) |->
     <<Frac(((k - 1) % st.boardSize.width) * st.squareSize, 1),
       Frac(((k - 1) \div st.boardSize.width) * st.squareSize, 1),
       Zero>>]

\* the pixels findChessboardCorners reports for the image at position pos
ChessPixels(st, pos) ==
  [k \in 1..(st.boardSize.width * st.boardSize.height) |-> <<pos, 0, k>>]

\* if (found) push the image's 2D and 3D points onto the collection; a miss
\* pushes nothing
chessboardDetect(st, pos, cal, found) ==
  IF found
    THEN [cal EXCEPT !.imagePoints = Append(@, ChessPixels(st, pos)),
                     !.objectPoints = Append(@, calcChessboardCorners(st))]
    ELSE cal

---------------------------------------------------------------------------
(* computeReprojectionErrors on every bounded collection *)

\* images in the collection
MaxErrImages == 2
\* most correspondences in one image's set
MaxErrPts == 2

\* the squared distances |observed - reprojected|^2 a correspondence can have
SquaredResiduals == {0, 1, 4}

RECURSIVE SumSeq(_, _)
SumSeq(f, k) == IF k > Len(f) THEN 0 ELSE f[k] + SumSeq(f, k + 1)

\* err * err for one image: norm(..., CV_L2) is the root of the summed squared
\* distances, 0 for an empty set
errSquared(set) == SumSeq(set, 1)

\* a double that is the non-negative root of the fraction f
Root(f) == [nan |-> FALSE, sq |-> f]

\* std::sqrt(a / n) with a double a >= 0 and an int n >= 0; a is 0 when n is
\* 0, and 0.0 / 0 is not a number. The rounding of the doubles and of the
\* (float) cast is left out: a value is held by its exact square.
sqrtOfQuotient(a, n) == IF n = 0 THEN NaN ELSE Root(Frac(a, n))

RECURSIVE totalErrFrom(_, _)
totalErrFrom(res, k) ==
  IF k > Len(res) THEN 0 ELSE errSquared(res[k]) + totalErrFrom(res, k + 1)

\* lines 545-562: one entry of reprojErrs per image, and the returned average
computeReprojectionErrors(res) ==
  [reprojErrs |-> [k \in 1..Len(res) |-> sqrtOfQuotient(errSquared(res[k]), Len(res[k]))],
   totalAvgErr |-> sqrtOfQuotient(totalErrFrom(res, 1), SumLen(res, 1))]

ErrInputs == BoundedSeq(BoundedSeq(SquaredResiduals, MaxErrPts), MaxErrImages)

InitErr ==
  /\ pc = "err_call"
  /\ residuals \in ErrInputs
  /\ reprojErrs = <<>>
  /\ totalAvgErr = NaN
  /\ UnifyIdle
  /\ CalIdle
  /\ DriverIdle
  /\ FlagIdle

ComputeReprojectionErrorsCall ==
  /\ pc = "err_call"
  /\ LET r == computeReprojectionErrors(residuals)
     IN  /\ reprojErrs' = r.reprojErrs
         /\ totalAvgErr' = r.totalAvgErr
  /\ pc' = "err_done"
  /\ UNCHANGED residuals
  /\ UNCHANGED unifyVars
  /\ UNCHANGED calVars
  /\ UNCHANGED driverVars
  /\ UNCHANGED flagVars

NextErr == ComputeReprojectionErrorsCall

SpecErr == InitErr /\ [][NextErr]_vars

---------------------------------------------------------------------------
(* The flag word of Settings::interprate and of runIntrinsicCalibration *)

\* the calibration flags of the library header the code is compiled with
CV_CALIB_USE_INTRINSIC_GUESS == 1
CV_CALIB_FIX_ASPECT_RATIO == 2
CV_CALIB_FIX_PRINCIPAL_POINT == 4
CV_CALIB_ZERO_TANGENT_DIST == 8
CV_CALIB_FIX_K1 == 32

\* the character code of '0'
CharZero == 48
\* the value bits of the int flag, without the sign bit
IntValueBits == 31
\* the characters of fixDistCoeffs the loop reads
FlagDigits == 5

RECURSIVE Pow2(_)
Pow2(n) == IF n = 0 THEN 1 ELSE 2 * Pow2(n - 1)

\* a | b on non-negative ints, bit by bit
RECURSIVE BitOr(_, _)
BitOr(a, b) ==
  IF a = 0 THEN b
  ELSE IF b = 0 THEN a
  ELSE (IF a % 2 = 1 \/ b % 2 = 1 THEN 1 ELSE 0) + 2 * BitOr(a \div 2, b \div 2)

\* a << n; the largest shift of the code, 32 << 7, stays within the int
ShiftLeft(a, n) == a * Pow2(n)

\* faulty variant: the fourth and fifth coefficient are shifted like the others
shiftOfPlain(n) == n

\* lines 238-241: the shift of the 0-based position n of fixDistCoeffs
shiftOf(n) == IF n >= 3 THEN n + 3 ELSE n

\* lines 235-245: the loop over the characters from 0-based position n on
RECURSIVE fixFlagsFrom(_, _, _)
fixFlagsFrom(fixDistCoeffs, f, n) ==
  IF n >= FlagDigits THEN f
  ELSE LET digit == fixDistCoeffs[n + 1] - CharZero
       IN  fixFlagsFrom(fixDistCoeffs,
                        IF digit # 0 THEN BitOr(f, ShiftLeft(CV_CALIB_FIX_K1, shiftOf(n)))
                                     ELSE f,
                        n + 1)

\* lines 233-249: the flag word of a settings file
buildFlag(c) ==
  LET f0 == fixFlagsFrom(c.fixDistCoeffs, 0, 0)
      f1 == IF c.fixPrincipalPoint THEN BitOr(f0, CV_CALIB_FIX_PRINCIPAL_POINT) ELSE f0
      f2 == IF c.assumeZeroTangentDist THEN BitOr(f1, CV_CALIB_ZERO_TANGENT_DIST) ELSE f1
  IN  IF c.aspectRatio # 0 THEN BitOr(f2, CV_CALIB_FIX_ASPECT_RATIO) ELSE f2

\* lines 913-928: the flags runIntrinsicCalibration passes to calibrateCamera
solverFlags(st, f) ==
  IF st.useIntrinsicInput THEN BitOr(f, CV_CALIB_USE_INTRINSIC_GUESS) ELSE f

\* the characters '0', '1' and '9'
DigitChars == {48, 49, 57}

\* settings files with a fixDistCoeffs string of five digits
FlagConfigs ==
  [fixDistCoeffs : [1..FlagDigits -> DigitChars], fixPrincipalPoint : BOOLEAN,
   assumeZeroTangentDist : BOOLEAN, aspectRatio : {0, 1, 2}]

InitFlag ==
  /\ pc = "flag_build"
  /\ cfg \in FlagConfigs
  /\ \E u \in BOOLEAN : s = [NoSettings EXCEPT !.useIntrinsicInput = u]
  /\ flag = 0
  /\ calibrateFlags = 0
  /\ goodInput = TRUE
  /\ i = 0
  /\ vectorIndex = -1
  /\ currentInCal = "inCal"
  /\ stopAt = 0
  /\ detections = <<>>
  /\ detectCalls = 0
  /\ calls = <<>>
  /\ UnifyIdle
  /\ CalIdle
  /\ ErrIdle

FlagFrame ==
  /\ UNCHANGED <<s, i, vectorIndex, currentInCal, stopAt, detections, detectCalls, calls,
                 cfg, goodInput>>
  /\ UNCHANGED unifyVars
  /\ UNCHANGED calVars
  /\ UNCHANGED errVars

\* the end of Settings::interprate
BuildFlag ==
  /\ pc = "flag_build"
  /\ flag' = buildFlag(cfg)
  /\ pc' = "flag_solve"
  /\ UNCHANGED calibrateFlags
  /\ FlagFrame

\* the call of calibrateCamera in runIntrinsicCalibration
CalibrateCameraCall ==
  /\ pc = "flag_solve"
  /\ calibrateFlags' = solverFlags(s, flag)
  /\ pc' = "flag_done"
  /\ UNCHANGED flag
  /\ FlagFrame

NextFlag == BuildFlag \/ CalibrateCameraCall

SpecFlag == InitFlag /\ [][NextFlag]_vars

---------------------------------------------------------------------------
(* calibrateWithSettings *)

Patterns == {"CHESSBOARD", "ARUCO_SINGLE", "ARUCO_BOX"}

nConfigsOf(pattern) ==
  CASE pattern = "CHESSBOARD" -> 0
    [] pattern = "ARUCO_SINGLE" -> 1
    [] pattern = "ARUCO_BOX" -> 3

\* the plane lists of a run: the three planes in order, or the first label
\* replaced by a string that is no plane label
DriverPlaneLists(n) ==
  {SubSeq(<<"XY", "YZ", "XZ">>, 1, n), SubSeq(<<"ZZ", "YZ", "XZ">>, 1, n)}

\* the settings Settings::interprate accepts (goodInput): an even image count
\* in STEREO mode, one config for ARUCO_SINGLE and three for ARUCO_BOX, an
\* intrinsic input with ARUCO_BOX
DriverSettings ==
  {[mode |-> m, calibrationPattern |-> pt, nImages |-> n,
    nConfigs |-> nConfigsOf(pt), configList |-> SubSeq(BoxMaps, 1, nConfigsOf(pt)),
    planeList |-> pl, useIntrinsicInput |-> u, boardSize |-> Board,
    squareSize |-> 1] :
     m \in CalibrationModes, pt \in Patterns, n \in 0..MaxImages, u \in BOOLEAN,
     pl \in BoundedSeq(Labels, 3)}

GoodInput(st) ==
  /\ st.mode = "STEREO" => st.nImages % 2 = 0
  /\ st.calibrationPattern = "ARUCO_BOX" => st.useIntrinsicInput
  /\ st.planeList \in DriverPlaneLists(st.nConfigs)

\* what the detector can report for the image at pos: the chessboard is found
\* or not; the marker detector returns the same markers at each invocation
DriverDetections(st, pos) ==
  IF st.calibrationPattern = "CHESSBOARD"
    THEN BOOLEAN
    ELSE {[j \in 1..st.nConfigs |-> [n \in 1..Len(ids) |-> MarkerAt(pos, ids[n])]] :
            ids \in {<<>>, <<1>>, <<3, 2>>}}

\* the state after the declarations and the resize of lines 1044-1056
Init ==
  /\ pc = "loop"
  /\ s \in {st \in DriverSettings : GoodInput(st)}
  /\ stopAt \in 0..s.nImages
  /\ LET size == IF s.mode = "STEREO" THEN s.nImages \div 2 ELSE s.nImages
     IN  IF s.calibrationPattern # "CHESSBOARD"
           THEN inCal = Resized(size) /\ inCal2 = Resized(size)
           ELSE inCal = EmptyCal /\ inCal2 = EmptyCal
  /\ origCal = EmptyCal
  /\ origCal2 = EmptyCal
  /\ i = 0
  /\ vectorIndex = -1
  /\ currentInCal = "inCal"
  /\ detections = <<>>
  /\ detectCalls = 0
  /\ calls = <<>>
  /\ cfg = NoConfig
  /\ goodInput = TRUE
  /\ UnifyIdle
  /\ ErrIdle
  /\ FlagIdle

\* lines 1073-1079: the calibration and the index of this iteration
currentInCalAt(n) ==
  IF n % 2 = 0 THEN "inCal"
  ELSE IF s.mode = "STEREO" THEN "inCal2" ELSE currentInCal

\* faulty variant: vectorIndex is advanced at every image in STEREO mode too
vectorIndexAtEveryImage(n) == vectorIndex + 1

vectorIndexAt(n) ==
  IF n % 2 = 0 THEN vectorIndex + 1
  ELSE IF s.mode = "STEREO" THEN vectorIndex ELSE vectorIndex + 1

\* lines 767-768: inCal.imagePoints.at(vIdx) and inCal.objectPoints.at(vIdx)
\* do not throw
atInRange(cal, vIdx) ==
  /\ vIdx >= 0
  /\ vIdx < Len(cal.imagePoints)
  /\ vIdx < Len(cal.objectPoints)

\* faulty variant: the list position is compared with <=
imageSetupPastEnd(n) == n <= s.nImages /\ n <= stopAt

\* Settings::imageSetup: the image has data when the position is in the list
\* and the file can be read
imageSetup(n) == n < s.nImages /\ n < stopAt

\* the detection of one image on calibration cal
detect(st, pos, cal, vIdx, det) ==
  IF st.calibrationPattern = "CHESSBOARD"
    THEN [cal |-> chessboardDetect(st, pos, cal, det), n |-> 0]
    ELSE arucoDetect(st, det, cal, vIdx)

\* an iteration whose image has no data: solve if camera A's collection is
\* not empty, and leave the loop
ImageSourceExhausted ==
  /\ pc = "loop"
  /\ ~imageSetup(i)
  /\ currentInCal' = currentInCalAt(i)
  /\ vectorIndex' = vectorIndexAt(i)
  /\ pc' = IF Len(inCal.imagePoints) > 0 THEN "solve" ELSE "done"
  /\ UNCHANGED <<s, i, stopAt, detections, detectCalls, calls, cfg, goodInput>>
  /\ UNCHANGED calVars
  /\ UNCHANGED unifyVars
  /\ UNCHANGED errVars
  /\ UNCHANGED flagVars

\* an iteration whose image has data: detect the pattern on the current
\* calibration, then read a key; <ESC>, 'q' and 'Q' leave the loop. The
\* at(vectorIndex) of arucoDetect throws std::out_of_range outside the
\* collection, and nothing catches it
DetectImage ==
  /\ pc = "loop"
  /\ imageSetup(i)
  /\ currentInCal' = currentInCalAt(i)
  /\ vectorIndex' = vectorIndexAt(i)
  /\ IF /\ s.calibrationPattern # "CHESSBOARD"
        /\ ~atInRange(IF currentInCalAt(i) = "inCal" THEN inCal ELSE inCal2,
                      vectorIndexAt(i))
       THEN /\ pc' = "out_of_range"
            /\ i' = i
            /\ UNCHANGED <<inCal, inCal2, detectCalls, detections>>
       ELSE /\ \E det \in DriverDetections(s, i) :
                 \E r \in {detect(s, i,
                                  IF currentInCalAt(i) = "inCal" THEN inCal ELSE inCal2,
                                  vectorIndexAt(i), det)} :
                     /\ inCal' = IF currentInCalAt(i) = "inCal" THEN r.cal ELSE inCal
                     /\ inCal2' = IF currentInCalAt(i) = "inCal" THEN inCal2 ELSE r.cal
                     /\ detectCalls' = r.n
                     /\ detections' = Append(detections, det)
            /\ \E key \in {"none", "q"} :
                 IF key = "q"
                   THEN pc' = "done" /\ i' = i
                   ELSE pc' = "loop" /\ i' = i + 1
  /\ UNCHANGED <<s, stopAt, calls, origCal, origCal2, cfg, goodInput>>
  /\ UNCHANGED unifyVars
  /\ UNCHANGED errVars
  /\ UNCHANGED flagVars

Call(op, cam, ok) == [op |-> op, cam |-> cam, ok |-> ok]

\* faulty variant: the intrinsic solves run although an intrinsic input is used
stereoCallsIgnoringInput(st, ok, ok2) ==
  <<Call("runIntrinsicCalibration", "inCal", ok),
    Call("runIntrinsicCalibration", "inCal2", ok2)>>
  \o (IF st.calibrationPattern # "CHESSBOARD"
        THEN <<Call("getSharedPoints", "", TRUE)>> ELSE <<>>)
  \o <<Call("stereoCalibrate", "", TRUE), Call("stereoRectify", "", TRUE),
       Call("rectifyImages", "", TRUE), Call("saveExtrinsics", "", TRUE)>>

\* lines 993-1009 and 939-972: the calls of the STEREO branch, in order; ok and
\* ok2 are the results of checkRange after the two intrinsic solves
stereoCalls(st, ok, ok2) ==
  (IF st.useIntrinsicInput THEN <<>>
   ELSE <<Call("runIntrinsicCalibration", "inCal", ok),
          Call("runIntrinsicCalibration", "inCal2", ok2)>>)
  \o (IF st.calibrationPattern # "CHESSBOARD"
        THEN <<Call("getSharedPoints", "", TRUE)>> ELSE <<>>)
  \o <<Call("stereoCalibrate", "", TRUE), Call("stereoRectify", "", TRUE),
       Call("rectifyImages", "", TRUE), Call("saveExtrinsics", "", TRUE)>>

\* lines 1011-1021: the calls of the other branch, in order
intrinsicCalls(ok) ==
  <<Call("runIntrinsicCalibration", "inCal", ok)>>
  \o (IF ok THEN <<Call("undistortImages", "inCal", TRUE),
                   Call("saveIntrinsics", "inCal", TRUE)>>
            ELSE <<>>)

\* runCalibrationAndSave in STEREO mode: both intrinsic solves unless an
\* intrinsic input is used, then runStereoCalibration (getSharedPoints for a
\* marker pattern, the stereo solver, the rectification) and saveExtrinsics
RunStereo ==
  /\ pc = "solve"
  /\ s.mode = "STEREO"
  /\ \E ok \in BOOLEAN, ok2 \in BOOLEAN : calls' = calls \o stereoCalls(s, ok, ok2)
  /\ IF s.calibrationPattern # "CHESSBOARD"
       THEN \E r \in {getSharedPoints(inCal, inCal2)} :
                /\ inCal' = r.inCal
                /\ inCal2' = r.inCal2
                /\ origCal' = inCal
                /\ origCal2' = inCal2
       ELSE UNCHANGED calVars
  /\ pc' = "done"
  /\ UNCHANGED <<s, i, vectorIndex, currentInCal, stopAt, detections, detectCalls,
                 cfg, goodInput>>
  /\ UNCHANGED unifyVars
  /\ UNCHANGED errVars
  /\ UNCHANGED flagVars

\* runCalibrationAndSave in INTRINSIC mode: the intrinsic solve, then
\* undistortImages and saveIntrinsics if it succeeded
RunIntrinsic ==
  /\ pc = "solve"
  /\ s.mode # "STEREO"
  /\ \E ok \in BOOLEAN :
       calls' = calls \o intrinsicCalls(ok)
  /\ pc' = "done"
  /\ UNCHANGED <<s, i, vectorIndex, currentInCal, stopAt, detections, detectCalls,
                 cfg, goodInput>>
  /\ UNCHANGED calVars
  /\ UNCHANGED unifyVars
  /\ UNCHANGED errVars
  /\ UNCHANGED flagVars

Next == ImageSourceExhausted \/ DetectImage \/ RunStereo \/ RunIntrinsic

Spec == Init /\ [][Next]_vars

---------------------------------------------------------------------------
(* Settings::interprate and the entry of calibrateWithSettings *)

\* the strings a settings file can carry: the three of the code and a misspelt one
ModeInputs == {"INTRINSIC", "STEREO", "PREVIEW", "STERO"}
PatternInputs == Patterns \cup {"CHECKERBOARD"}

\* the settings file and the files it names; a field no check reads for the
\* given strings is held at one value
Configs ==
  {c \in [modeInput : ModeInputs, patternInput : PatternInputs,
          boardSize : {Board, [width |-> 0, height |-> 1]}, squareSize : {0, 1},
          cameraOpens : BOOLEAN, imageListReadable : BOOLEAN,
          imageListSize : 0..MaxImages, configListReadable : BOOLEAN,
          configListSize : {1, 3}, planeList : BoundedSeq(Labels, 3),
          intrinsicInputReadable : BOOLEAN] :
     /\ c.modeInput # "PREVIEW" => ~c.cameraOpens
     /\ c.modeInput = "PREVIEW" => ~c.imageListReadable
     /\ ~c.imageListReadable => c.imageListSize = 0
     /\ c.patternInput = "CHESSBOARD" => ~c.configListReadable
     /\ ~c.configListReadable => c.configListSize = 1
     /\ c.planeList \in DriverPlaneLists(c.configListSize)
     /\ ~c.configListReadable => c.planeList = <<"XY">>}

\* lines 142-145 and 152-155: the enum value of a string
modeOf(modeInput) ==
  IF modeInput \in {"INTRINSIC", "STEREO", "PREVIEW"} THEN modeInput ELSE "INVALID"

patternOf(patternInput) ==
  IF patternInput \in {"CHESSBOARD", "ARUCO_SINGLE", "ARUCO_BOX"}
    THEN patternInput ELSE "NOT_EXISTING"

\* faulty variant: the parity test assigns its result to goodInput
imageSourceGoodAssigned(good, mode, c) ==
  IF mode = "PREVIEW" THEN good /\ c.cameraOpens
  ELSE IF c.imageListReadable
    THEN ~(mode = "STEREO" /\ c.imageListSize % 2 # 0)
    ELSE FALSE

\* lines 173-201: goodInput after the image source has been looked at
imageSourceGood(good, mode, c) ==
  IF mode = "PREVIEW" THEN good /\ c.cameraOpens
  ELSE IF c.imageListReadable
    THEN good /\ ~(mode = "STEREO" /\ c.imageListSize % 2 # 0)
    ELSE FALSE

\* lines 203-222: goodInput after the marker config list has been looked at
configListGood(good, pattern, c) ==
  IF pattern = "CHESSBOARD" THEN good
  ELSE IF c.configListReadable
    THEN good /\ ~(pattern = "ARUCO_SINGLE" /\ c.configListSize # 1)
              /\ ~(pattern = "ARUCO_BOX" /\ c.configListSize # 3)
    ELSE FALSE

\* Settings::read has taken the fields of the file; interprate has not run
InitRun ==
  /\ pc = "interprate"
  /\ cfg \in Configs
  /\ goodInput = FALSE
  /\ s = [NoSettings EXCEPT !.boardSize = cfg.boardSize, !.squareSize = cfg.squareSize]
  /\ stopAt = 0
  /\ inCal = EmptyCal
  /\ inCal2 = EmptyCal
  /\ origCal = EmptyCal
  /\ origCal2 = EmptyCal
  /\ i = 0
  /\ vectorIndex = -1
  /\ currentInCal = "inCal"
  /\ detections = <<>>
  /\ detectCalls = 0
  /\ calls = <<>>
  /\ UnifyIdle
  /\ ErrIdle
  /\ FlagIdle

RunFrame ==
  /\ UNCHANGED <<i, vectorIndex, currentInCal, stopAt, detections, detectCalls, calls, cfg>>
  /\ UNCHANGED calVars
  /\ UNCHANGED unifyVars
  /\ UNCHANGED errVars
  /\ UNCHANGED flagVars

\* lines 140-150: goodInput = true, then the mode string
CheckMode ==
  /\ pc = "interprate"
  /\ s' = [s EXCEPT !.mode = modeOf(cfg.modeInput)]
  /\ goodInput' = (modeOf(cfg.modeInput) # "INVALID")
  /\ pc' = "check_pattern"
  /\ RunFrame

\* lines 152-160: the pattern string
CheckPattern ==
  /\ pc = "check_pattern"
  /\ s' = [s EXCEPT !.calibrationPattern = patternOf(cfg.patternInput)]
  /\ goodInput' = (goodInput /\ patternOf(cfg.patternInput) # "NOT_EXISTING")
  /\ pc' = "check_sizes"
  /\ RunFrame

\* lines 162-171: the board size and the square size
CheckSizes ==
  /\ pc = "check_sizes"
  /\ goodInput' = (goodInput /\ ~(s.boardSize.width <= 0 \/ s.boardSize.height <= 0)
                             /\ ~(s.squareSize <= 0))
  /\ pc' = "check_source"
  /\ UNCHANGED s
  /\ RunFrame

\* lines 173-201: the camera of a preview, or the image list and its parity
CheckImageSource ==
  /\ pc = "check_source"
  /\ s' = IF s.mode # "PREVIEW" /\ cfg.imageListReadable
            THEN [s EXCEPT !.nImages = cfg.imageListSize] ELSE s
  /\ goodInput' = imageSourceGood(goodInput, s.mode, cfg)
  /\ pc' = "check_configs"
  /\ RunFrame

\* lines 203-222: the marker config list of a pattern that is no chessboard
CheckConfigList ==
  /\ pc = "check_configs"
  /\ s' = IF s.calibrationPattern # "CHESSBOARD" /\ cfg.configListReadable
            THEN [s EXCEPT !.nConfigs = cfg.configListSize,
                           !.configList = SubSeq(BoxMaps, 1, cfg.configListSize),
                           !.planeList = cfg.planeList]
            ELSE s
  /\ goodInput' = configListGood(goodInput, s.calibrationPattern, cfg)
  /\ pc' = "check_intrinsic"
  /\ RunFrame

\* lines 224-231: the intrinsic input, which ARUCO_BOX cannot do without
CheckIntrinsicInput ==
  /\ pc = "check_intrinsic"
  /\ s' = [s EXCEPT !.useIntrinsicInput = cfg.intrinsicInputReadable]
  /\ goodInput' = (goodInput /\ ~(~cfg.intrinsicInputReadable
                                   /\ s.calibrationPattern = "ARUCO_BOX"))
  /\ pc' = "interprated"
  /\ RunFrame

\* lines 1037-1041: return -1 on a configuration that is not good
ReturnBadInput ==
  /\ pc = "interprated"
  /\ ~goodInput
  /\ pc' = "error"
  /\ UNCHANGED <<s, goodInput>>
  /\ RunFrame

\* a good PREVIEW configuration: the live preview is not followed further
EnterPreview ==
  /\ pc = "interprated"
  /\ goodInput
  /\ s.mode = "PREVIEW"
  /\ pc' = "preview"
  /\ UNCHANGED <<s, goodInput>>
  /\ RunFrame

\* lines 1044-1070: the declarations, the resize for a marker pattern, and the
\* entry of the loop; stopAt is the first list position whose file has no data
EnterLoop ==
  /\ pc = "interprated"
  /\ goodInput
  /\ s.mode # "PREVIEW"
  /\ stopAt' \in 0..s.nImages
  /\ LET size == IF s.mode = "STEREO" THEN s.nImages \div 2 ELSE s.nImages
     IN  IF s.calibrationPattern # "CHESSBOARD"
           THEN inCal' = Resized(size) /\ inCal2' = Resized(size)
           ELSE inCal' = EmptyCal /\ inCal2' = EmptyCal
  /\ i' = 0
  /\ vectorIndex' = -1
  /\ pc' = "loop"
  /\ UNCHANGED <<s, goodInput, cfg, currentInCal, detections, detectCalls, calls,
                 origCal, origCal2>>
  /\ UNCHANGED unifyVars
  /\ UNCHANGED errVars
  /\ UNCHANGED flagVars

NextRun ==
  \/ CheckMode \/ CheckPattern \/ CheckSizes \/ CheckImageSource
  \/ CheckConfigList \/ CheckIntrinsicInput
  \/ ReturnBadInput \/ EnterPreview \/ EnterLoop
  \/ Next

SpecRun == InitRun /\ [][NextRun]_vars

---------------------------------------------------------------------------
(* Claims about getSharedPoints, under SpecMatch *)

\* the images getSharedPoints has worked on
MatchedImages == 1..Len(origCal.objectPoints)

\* C1: after getSharedPoints, for every image index i the set of 3D points of
\* A'[i] is exactly the set of 3D points that occur both in A[i] and in B[i]:
\* no shared point is left out and no point of only one camera is kept.
C1_SharedPointsExactlyIntersection ==
  pc = "match_done" =>
    \A k \in MatchedImages :
      Range(inCal.objectPoints[k]) =
        Range(origCal.objectPoints[k]) \cap Range(origCal2.objectPoints[k])

\* camera A sees a point camera B does not see and a point B sees too
C1_Witness ==
  /\ pc = "match_done"
  /\ \E k \in MatchedImages :
       /\ Range(origCal.objectPoints[k]) \ Range(origCal2.objectPoints[k]) # {}
       /\ Range(origCal.objectPoints[k]) \cap Range(origCal2.objectPoints[k]) # {}
       /\ Len(inCal.objectPoints[k]) = 1

\* C2: after getSharedPoints, for every image index the 3D point sequences of
\* A'[i] and B'[i] are identical and the four lengths (2D and 3D of A' and of
\* B') are all equal, also when a 3D point occurs more than once in an input.
C2_OutputsIdenticalObjectPoints ==
  pc = "match_done" =>
    \A k \in MatchedImages :
      /\ inCal.objectPoints[k] = inCal2.objectPoints[k]
      /\ Len(inCal.imagePoints[k]) = Len(inCal.objectPoints[k])
      /\ Len(inCal2.imagePoints[k]) = Len(inCal.objectPoints[k])
      /\ Len(inCal2.objectPoints[k]) = Len(inCal.objectPoints[k])

\* the two cameras hold the same two shared points in opposite orders
C2_Witness ==
  /\ pc = "match_done"
  /\ \E k \in MatchedImages :
       /\ Len(origCal.objectPoints[k]) = 2
       /\ Len(origCal2.objectPoints[k]) = 2
       /\ origCal.objectPoints[k][1] # origCal.objectPoints[k][2]
       /\ origCal2.objectPoints[k][1] = origCal.objectPoints[k][2]
       /\ origCal2.objectPoints[k][2] = origCal.objectPoints[k][1]
       /\ Len(inCal.objectPoints[k]) = 2

\* f is strictly increasing on 1..n
Increasing(f, n) == \A a, b \in 1..n : a < b => f[a] < f[b]

\* C3: every 2D observation stays attached to its own 3D point: the output of
\* A is a subsequence of A's input correspondences (so it follows A's order),
\* and the 2D point at each output position of B is one B paired with the 3D
\* point at that position.
C3_ImagePointsStayPaired ==
  pc = "match_done" =>
    \A k \in MatchedImages :
      LET n == Len(inCal.objectPoints[k])
      IN  /\ \E f \in [1..n -> 1..Len(origCal.objectPoints[k])] :
                /\ Increasing(f, n)
                /\ \A m \in 1..n :
                     /\ inCal.objectPoints[k][m] = origCal.objectPoints[k][f[m]]
                     /\ inCal.imagePoints[k][m] = origCal.imagePoints[k][f[m]]
          /\ \A m \in 1..n :
                \E b \in 1..Len(origCal2.objectPoints[k]) :
                  /\ origCal2.objectPoints[k][b] = inCal2.objectPoints[k][m]
                  /\ origCal2.imagePoints[k][b] = inCal2.imagePoints[k][m]

\* the shared point sits at different positions in A and in B, and B's two
\* pixels differ
C3_Witness ==
  /\ pc = "match_done"
  /\ \E k \in MatchedImages :
       /\ Len(origCal.objectPoints[k]) = 1
       /\ Len(origCal2.objectPoints[k]) = 2
       /\ origCal2.objectPoints[k][2] = origCal.objectPoints[k][1]
       /\ origCal2.objectPoints[k][1] # origCal.objectPoints[k][1]
       /\ origCal2.imagePoints[k][1] # origCal2.imagePoints[k][2]
       /\ inCal2.imagePoints[k] = <<origCal2.imagePoints[k][2]>>

\* C4: getSharedPoints applied to two equal collections returns both
\* unchanged, 2D and 3D sequences element for element, also when the same 3D
\* point occurs at more than one position of a set.
C4_EqualInputsUnchanged ==
  (pc = "match_done" /\ origCal = origCal2) =>
    (inCal = origCal /\ inCal2 = origCal2)

---------------------------------------------------------------------------
(* Claims about getIntPoints, under SpecUnify *)

\* the unified point the three transforms are documented to give
Expected(p, pl) ==
  CASE pl = "XY" -> <<Frac(p[1] + 1000, 125), Frac(p[2] + 1000, 125), <<0, 1>>>>
    [] pl = "YZ" -> <<<<0, 1>>, Frac(p[2] + 1000, 125), Frac(1000 - p[1], 125)>>
    [] pl = "XZ" -> <<Frac(p[1] + 1000, 125), <<0, 1>>, Frac(1000 - p[2], 125)>>

\* C5: with a valid plane label getIntPoints returns one point per input
\* point, in input order, each the documented transform of its input; the
\* local origin becomes (8,8,0) on XY and (0,8,8) on YZ, two distinct points.
C5_UnifyTransforms ==
  (pc = "unify_done" /\ plane \in ValidPlanes) =>
    /\ Len(intPoints) = Len(points)
    /\ \A k \in 1..Len(points) :
         /\ intPoints[k] = Expected(points[k], plane)
         /\ (points[k] = <<0, 0, 0>> /\ plane = "XY") =>
              intPoints[k] = <<<<8, 1>>, <<8, 1>>, <<0, 1>>>>
         /\ (points[k] = <<0, 0, 0>> /\ plane = "YZ") =>
              intPoints[k] = <<<<0, 1>>, <<8, 1>>, <<8, 1>>>>

\* plane YZ has been applied to the local origin and to a point off the origin
C5_Witness ==
  /\ pc = "unify_done"
  /\ plane = "YZ"
  /\ Len(points) = 2
  /\ points[1] = <<0, 0, 0>>
  /\ points[2] = <<1000, -1000, 5>>
  /\ Len(intPoints) = 2

\* C6: for every valid plane label and every input point with integer local
\* coordinates in [-1000, 1000], every coordinate getIntPoints returns is a
\* non-negative integer.
C6_NonNegativeIntegers ==
  (pc = "unify_done" /\ plane \in ValidPlanes) =>
    \A k \in 1..Len(intPoints) : \A c \in 1..3 :
      IsNonNegative(intPoints[k][c]) /\ IsInteger(intPoints[k][c])

\* C7: getIntPoints called with a plane label other than XY, YZ or XZ fails
\* with an error; it does not return a point list.
C7_UnrecognisedPlaneFails ==
  (pc = "unify_done" /\ plane \notin ValidPlanes) => unifyOutcome = "error"

---------------------------------------------------------------------------
(* Claims about arucoDetect, under SpecDetect *)

RECURSIVE Flatten(_)
Flatten(q) == IF q = <<>> THEN <<>> ELSE Head(q) \o Flatten(Tail(q))

\* the detected markers of map j that the map holds, in detection order
MarkersInMap(st, det, j) ==
  SelectSeq(det[j], LAMBDA mk : \E n \in 1..Len(st.configList[j]) :
                                  st.configList[j][n].id = mk.id)

\* the map's entry for marker id m
EntryOf(st, j, m) ==
  CHOOSE e \in Range(st.configList[j]) : e.id = m

\* the corners of the detected markers of map j
MapImagePoints(st, det, j) ==
  Flatten([n \in 1..Len(MarkersInMap(st, det, j)) |-> MarkersInMap(st, det, j)[n].corners])

\* their unified 3D points; a label that is no plane label has none
MapObjectPoints(st, det, j) ==
  Flatten([n \in 1..Len(MarkersInMap(st, det, j)) |->
             [c \in 1..4 |->
                IF st.planeList[j] \in ValidPlanes
                  THEN Expected(EntryOf(st, j, MarkersInMap(st, det, j)[n].id).pts[c],
                                st.planeList[j])
                  ELSE "no unified point"]])

\* C8: arucoDetect invokes the detector once per configured map, and the
\* image's correspondence set afterwards is the concatenation, in map order,
\* of each map's detected marker corners (4 per detected marker that is in the
\* map) paired with their unified 3D points; a map that detects no marker adds
\* nothing and does not keep the other maps' points out.
C8_SetIsConcatenationOverMaps ==
  pc = "detect_done" =>
    LET det == detections[1]
    IN  /\ detectCalls = s.nConfigs
        /\ inCal.imagePoints[vectorIndex + 1] =
             Flatten([j \in 1..s.nConfigs |-> MapImagePoints(s, det, j)])
        /\ inCal.objectPoints[vectorIndex + 1] =
             Flatten([j \in 1..s.nConfigs |-> MapObjectPoints(s, det, j)])

\* the same statement for configurations whose plane labels are all valid
C8_WithValidLabels ==
  (\A j \in 1..s.nConfigs : s.planeList[j] \in ValidPlanes) =>
    C8_SetIsConcatenationOverMaps

---------------------------------------------------------------------------
(* Claims about calibrateWithSettings, under Spec *)

\* the calibration that holds the image at list position p, and the index of
\* the image among that camera's images
CameraOf(p) == IF s.mode = "STEREO" /\ p % 2 = 1 THEN inCal2 ELSE inCal
IndexOf(p) == IF s.mode = "STEREO" THEN p \div 2 ELSE p

\* the correspondence set the detection of the image at position p builds,
\* empty on a miss
SetOf(p) ==
  IF s.calibrationPattern = "CHESSBOARD"
    THEN IF detections[p + 1]
           THEN [img |-> ChessPixels(s, p), obj |-> calcChessboardCorners(s)]
           ELSE [img |-> <<>>, obj |-> <<>>]
    ELSE LET r == arucoDetect(s, detections[p + 1], Resized(1), 0).cal
         IN  [img |-> r.imagePoints[1], obj |-> r.objectPoints[1]]

\* the images detected so far sit at their own positions
MissesRecorded ==
  \A p \in 0..(Len(detections) - 1) :
    /\ Len(CameraOf(p).imagePoints) > IndexOf(p)
    /\ Len(CameraOf(p).objectPoints) > IndexOf(p)
    /\ CameraOf(p).imagePoints[IndexOf(p) + 1] = SetOf(p).img
    /\ CameraOf(p).objectPoints[IndexOf(p) + 1] = SetOf(p).obj

\* C9: a detection miss is recorded, not dropped, for every pattern kind:
\* while the images are detected and when the solve stage is entered, the set
\* at position j of a camera's collection holds exactly the correspondences of
\* that camera's j-th image, an empty set for a miss.
C9_MissesRecordedEveryPattern ==
  pc \in {"loop", "solve"} => MissesRecorded

\* C9 for the two marker patterns alone
C9_MarkerPatternsOnly ==
  (pc \in {"loop", "solve"} /\ s.calibrationPattern # "CHESSBOARD") => MissesRecorded

\* every pixel of every set of collection c at index k comes from the image at
\* list position 2k + off
ComesFrom(c, off) ==
  \A k \in 1..Len(c.imagePoints) :
    \A n \in 1..Len(c.imagePoints[k]) : c.imagePoints[k][n][1] = 2 * (k - 1) + off

\* C10: in STEREO mode, when the solve stage (the matcher and the stereo
\* solver) is entered, the collections of camera A and camera B have the same
\* length and the set at index i of A comes from list position 2i, that of B
\* from position 2i+1, for every pattern, every combination of hits and misses
\* and every position at which the image source stops.
C10_StereoCollectionsAligned ==
  (pc = "solve" /\ s.mode = "STEREO") =>
    /\ Len(inCal.imagePoints) = Len(inCal2.imagePoints)
    /\ Len(inCal.objectPoints) = Len(inCal2.objectPoints)
    /\ ComesFrom(inCal, 0)
    /\ ComesFrom(inCal2, 1)

\* C10 for the two marker patterns alone
C10_MarkerPatternsOnly ==
  s.calibrationPattern # "CHESSBOARD" => C10_StereoCollectionsAligned

---------------------------------------------------------------------------
(* Claims about the validation of the settings, under SpecRun *)

\* one of the three faults of the claim is in the files: a mode string or a
\* pattern string the code does not know, or a readable image list of odd
\* length in STEREO mode
RejectedConfig ==
  \/ cfg.modeInput \notin {"INTRINSIC", "STEREO", "PREVIEW"}
  \/ cfg.patternInput \notin {"CHESSBOARD", "ARUCO_SINGLE", "ARUCO_BOX"}
  \/ cfg.modeInput = "STEREO" /\ cfg.imageListReadable /\ cfg.imageListSize % 2 # 0

InterprateRunning ==
  pc \in {"interprate", "check_pattern", "check_sizes", "check_source",
          "check_configs", "check_intrinsic"}

\* C11: a configuration with an unknown mode string, an unknown pattern string
\* or an odd image count in STEREO mode is rejected: the run returns the error
\* with no image detected and no solver called; and once a validation check
\* has set goodInput to false no later check sets it to true again.
C11_InvalidConfigurationRejected ==
  /\ []((RejectedConfig /\ ~InterprateRunning) =>
          /\ ~goodInput
          /\ pc \in {"interprated", "error"}
          /\ detections = <<>>
          /\ detectCalls = 0
          /\ calls = <<>>)
  /\ [][(pc # "interprate" /\ ~goodInput) => ~goodInput']_vars

\* a misspelt mode string is the only fault: every later check passes, and the
\* run has returned the error
C11_Witness ==
  /\ pc = "error"
  /\ cfg.modeInput = "STERO"
  /\ cfg.patternInput = "ARUCO_SINGLE"
  /\ cfg.boardSize = Board
  /\ cfg.squareSize = 1
  /\ cfg.imageListReadable
  /\ cfg.imageListSize = 2
  /\ cfg.configListReadable
  /\ cfg.configListSize = 1
  /\ cfg.intrinsicInputReadable

---------------------------------------------------------------------------
(* Claims about the end of the loop and the solve stage, under Spec *)

\* the loop was left by the key: the image at position i was detected and i
\* was not advanced
AbortObserved == pc = "done" /\ Len(detections) = i + 1

\* a camera holds a set with at least one correspondence
Gathered ==
  \/ \E k \in 1..Len(inCal.imagePoints) : Len(inCal.imagePoints[k]) > 0
  \/ \E k \in 1..Len(inCal2.imagePoints) : Len(inCal2.imagePoints[k]) > 0

\* C12: when the abort key is read after at least one image has been absorbed,
\* the driver solves and saves with what it has gathered before it ends; it
\* does not end without a solver call.
C12_AbortSolvesPartialResult ==
  (AbortObserved /\ Gathered) => calls # <<>>

\* the loop was left at a list position whose image could not be read
LeftAtUnreadableImage ==
  /\ pc \in {"solve", "done"}
  /\ Len(detections) = i
  /\ i = stopAt
  /\ stopAt < s.nImages

\* C13: when an image of the list cannot be read, then with no data gathered
\* the run ends with no solver call, for every pattern, and with data gathered
\* the solve stage runs on what was gathered.
C13_UnreadableImage ==
  LeftAtUnreadableImage =>
    IF Gathered
      THEN pc = "solve" \/ calls # <<>>
      ELSE pc = "done" /\ calls = <<>>

\* C13 for INTRINSIC mode with the CHESSBOARD pattern alone
C13_ChessboardIntrinsicOnly ==
  (s.mode = "INTRINSIC" /\ s.calibrationPattern = "CHESSBOARD") => C13_UnreadableImage

OutputSteps == {"undistortImages", "rectifyImages", "saveIntrinsics", "saveExtrinsics"}

\* C14: in every mode, after an intrinsic solve whose result fails checkRange
\* no undistortion or rectification output and no save is performed; after a
\* successful solve the output steps are performed.
C14_FailedSolveSkipsOutput ==
  pc = "done" =>
    \A a \in 1..Len(calls) :
      calls[a].op = "runIntrinsicCalibration" =>
        IF calls[a].ok
          THEN \E b \in (a + 1)..Len(calls) : calls[b].op \in OutputSteps
          ELSE \A b \in (a + 1)..Len(calls) : calls[b].op \notin OutputSteps

\* C14 for the modes other than STEREO
C14_SingleCameraOnly ==
  s.mode # "STEREO" => C14_FailedSolveSkipsOutput

\* the positions in calls of operation op on camera cam
CallsOf(op, cam) == {k \in 1..Len(calls) : calls[k].op = op /\ calls[k].cam = cam}

\* C15: the solve stage of STEREO mode without an intrinsic input runs the
\* intrinsic solver once for camera A and once for camera B, both before the
\* stereo solver; with an intrinsic input it runs the stereo solver once and no
\* intrinsic solver; the solve stage of the single-camera mode runs the
\* intrinsic solver once and never the stereo solver.
C15_SolveDispatch ==
  (pc = "done" /\ calls # <<>>) =>
    IF s.mode = "STEREO"
      THEN /\ Cardinality(CallsOf("stereoCalibrate", "")) = 1
           /\ IF s.useIntrinsicInput
                THEN /\ CallsOf("runIntrinsicCalibration", "inCal") = {}
                     /\ CallsOf("runIntrinsicCalibration", "inCal2") = {}
                ELSE /\ Cardinality(CallsOf("runIntrinsicCalibration", "inCal")) = 1
                     /\ Cardinality(CallsOf("runIntrinsicCalibration", "inCal2")) = 1
                     /\ \A a \in CallsOf("runIntrinsicCalibration", "inCal")
                               \cup CallsOf("runIntrinsicCalibration", "inCal2") :
                          \A b \in CallsOf("stereoCalibrate", "") : a < b
                     /\ \A a \in CallsOf("runIntrinsicCalibration", "inCal") :
                          \A b \in CallsOf("runIntrinsicCalibration", "inCal2") : a < b
      ELSE /\ Cardinality(CallsOf("runIntrinsicCalibration", "inCal")) = 1
           /\ CallsOf("runIntrinsicCalibration", "inCal2") = {}
           /\ CallsOf("stereoCalibrate", "") = {}

\* a STEREO run with an intrinsic input has been solved
C15_Witness ==
  /\ pc = "done"
  /\ s.mode = "STEREO"
  /\ s.useIntrinsicInput
  /\ CallsOf("stereoCalibrate", "") # {}
  /\ Len(detections) = 2

---------------------------------------------------------------------------
(* Claims about computeReprojectionErrors, under SpecErr *)

\* v is a number and v * v * n = sum
SquareTimesIs(v, n, sum) ==
  /\ ~v.nan
  /\ Frac(v.sq[1] * n, v.sq[2]) = Frac(sum, 1)

\* the equations of the point-weighted root mean square
WeightedRootMeanSquare ==
  /\ Len(reprojErrs) = Len(residuals)
  /\ \A k \in 1..Len(residuals) :
       SquareTimesIs(reprojErrs[k], Len(residuals[k]), errSquared(residuals[k]))
  /\ SquareTimesIs(totalAvgErr, SumLen(residuals, 1), totalErrFrom(residuals, 1))

\* C16: computeReprojectionErrors produces one per-image error per image; the
\* error e of image i satisfies e^2 * n_i = the summed squared residuals of
\* image i, and the returned average a satisfies a^2 * (number of points of
\* all images) = the summed squared residuals of all points: the average is
\* weighted by points, it is not the mean of the per-image errors.
C16_PointWeightedRootMeanSquare ==
  pc = "err_done" => WeightedRootMeanSquare

\* C16 for the collections in which every image has a correspondence
C16_NonEmptySetsOnly ==
  (pc = "err_done" /\ Len(residuals) > 0
     /\ \A k \in 1..Len(residuals) : Len(residuals[k]) > 0)
    => WeightedRootMeanSquare

\* two collections with the same per-image errors and different point counts
\* have different averages
C16_WeightsByPoints ==
  (pc = "err_done" /\ residuals = <<<<4, 4>>, <<0>>>>) =>
    LET other == computeReprojectionErrors(<<<<4>>, <<0>>>>)
    IN  /\ reprojErrs = other.reprojErrs
        /\ totalAvgErr # other.totalAvgErr

\* C17: for every collection, also one in which some or all images have an
\* empty set, every per-image error and the average are numbers and are not
\* negative, and the average is 0 when every residual is 0.
C17_ErrorsWellDefined ==
  pc = "err_done" =>
    /\ \A k \in 1..Len(reprojErrs) :
         ~reprojErrs[k].nan /\ IsNonNegative(reprojErrs[k].sq)
    /\ ~totalAvgErr.nan
    /\ IsNonNegative(totalAvgErr.sq)
    /\ (\A k \in 1..Len(residuals) : errSquared(residuals[k]) = 0)
         => totalAvgErr = Root(Zero)

\* C17 for the collections in which every image has a correspondence
C17_NonEmptySetsOnly ==
  (Len(residuals) > 0 /\ \A k \in 1..Len(residuals) : Len(residuals[k]) > 0)
    => C17_ErrorsWellDefined

---------------------------------------------------------------------------
(* A further claim about getSharedPoints, under SpecMatch *)

\* the positions of B's input set k that getSharedPoints has taken a 2D point
\* from, one for each entry of B's output set
UsedPositions(k) ==
  LET oPoints == origCal.objectPoints[k]
      oPoints2 == origCal2.objectPoints[k]
      pos == sharedPositions(oPoints, oPoints2, 1)
  IN  [n \in 1..Len(pos) |-> shared(oPoints[pos[n]], oPoints2)]

\* C18: within one image getSharedPoints never matches the same position of B
\* twice: every position of B's set gives at most one entry of B's output set,
\* also when a 3D point occurs more than once in A's set.
C18_NoPositionMatchedTwice ==
  pc = "match_done" =>
    \A k \in MatchedImages :
      /\ Len(UsedPositions(k)) = Len(inCal2.imagePoints[k])
      /\ Distinct(UsedPositions(k))
      /\ Len(inCal2.imagePoints[k]) <= Len(origCal2.imagePoints[k])

\* C18 for the inputs in which no 3D point occurs twice in a set of A
C18_WithoutRepeatedPoints ==
  (\A k \in MatchedImages : Distinct(origCal.objectPoints[k]))
    => C18_NoPositionMatchedTwice

---------------------------------------------------------------------------
(* Claims about the order of a run, under SpecLive *)

\* the lines of the loop are executed one after the other: a run that can take
\* a step does take it
SpecLive == Spec /\ WF_vars(Next)

\* C19: in an INTRINSIC or STEREO run every detection comes before the solve
\* stage; each image of the list is detected at most once, in list order; the
\* solve stage is entered at most once and only when the image source gives no
\* more data; after it nothing is detected and the driver ends; and the loop
\* over a finite image list terminates.
C19_DetectThenSolveThenDone ==
  /\ [][Len(detections') # Len(detections) =>
          /\ pc = "loop"
          /\ calls = <<>>
          /\ i = Len(detections)
          /\ i < s.nImages
          /\ Len(detections') = Len(detections) + 1
          /\ i' >= i]_vars
  /\ [][pc' # pc =>
          \/ pc = "loop" /\ pc' = "solve" /\ ~(i < s.nImages /\ i < stopAt)
          \/ pc = "loop" /\ pc' = "done"
          \/ pc = "solve" /\ pc' = "done"]_vars
  /\ [][calls' # calls => pc = "solve" /\ calls = <<>>]_vars
  /\ [][pc # "done"]_vars
  /\ <>(pc = "done")

\* a STEREO run has detected four images in order and has been solved
C19_Witness ==
  /\ pc = "done"
  /\ s.mode = "STEREO"
  /\ s.nImages = 4
  /\ Len(detections) = 4
  /\ i = 4
  /\ calls # <<>>

---------------------------------------------------------------------------
(* Claim about the collections in every state of a run, under SpecRun *)

\* collection c has as many 2D sets as 3D sets, and each set as many 2D points
\* as 3D points
Paired(c) ==
  /\ Len(c.imagePoints) = Len(c.objectPoints)
  /\ \A k \in 1..Len(c.imagePoints) : Len(c.imagePoints[k]) = Len(c.objectPoints[k])

\* C20: in every reachable state of a run, after chessboard detections, marker
\* detections (also with no marker detected or with a plane label that is no
\* plane) and the shared-point matching, each camera's collection has as many
\* 2D sets as 3D sets and every set as many 2D points as 3D points.
C20_CollectionsPaired ==
  Paired(inCal) /\ Paired(inCal2)

\* a STEREO marker run with a label that is no plane has detected markers for
\* both cameras and the matching has run
C20_Witness ==
  /\ pc = "done"
  /\ s.mode = "STEREO"
  /\ s.calibrationPattern = "ARUCO_BOX"
  /\ s.planeList[1] = "ZZ"
  /\ \E k \in 1..Len(calls) : calls[k].op = "getSharedPoints"
  /\ \E k \in 1..Len(origCal.imagePoints) : Len(origCal.imagePoints[k]) > 0
  /\ \E k \in 1..Len(origCal2.imagePoints) : Len(origCal2.imagePoints[k]) > 0
  /\ \E k \in 1..Len(inCal.imagePoints) : Len(inCal.imagePoints[k]) > 0

---------------------------------------------------------------------------
(* Claim about the flag word, under SpecFlag *)

\* bit b of the non-negative int x is set
HasBit(x, b) == (x \div Pow2(b)) % 2 = 1

\* the bit the claim gives the k-th distortion coefficient
FixBitOf(k) == IF k <= 3 THEN k + 4 ELSE k + 7

\* the bits the claim gives the eight options
OptionBits == {FixBitOf(k) : k \in 1..5} \cup {1, 2, 3}

\* C21: for each k in 1..5 the fix-k_k bit (bits 5, 6, 7, 11, 12) of the flag
\* word is set exactly if the k-th digit of the five-digit fixDistCoeffs is
\* not 0; the fix-aspect-ratio, fix-principal-point and zero-tangential bits
\* (bits 1, 2, 3) are set exactly if their options are set; the eight bits are
\* pairwise distinct and no other bit is set; and the use-intrinsic-guess bit
\* (bit 0) is added only in the calibrateCamera call made with an intrinsic
\* input, which passes the other bits as they are.
C21_FlagWord ==
  /\ pc \in {"flag_solve", "flag_done"} =>
       /\ \A k \in 1..5 : HasBit(flag, FixBitOf(k)) <=> (cfg.fixDistCoeffs[k] # 48)
       /\ HasBit(flag, 1) <=> (cfg.aspectRatio # 0)
       /\ HasBit(flag, 2) <=> cfg.fixPrincipalPoint
       /\ HasBit(flag, 3) <=> cfg.assumeZeroTangentDist
       /\ Cardinality(OptionBits) = 8
       /\ \A b \in 0..(IntValueBits - 1) : HasBit(flag, b) => b \in OptionBits
  /\ pc = "flag_done" =>
       /\ HasBit(calibrateFlags, 0) <=> s.useIntrinsicInput
       /\ \A b \in 1..(IntValueBits - 1) : HasBit(calibrateFlags, b) <=> HasBit(flag, b)

\* the string "01019" with the principal point fixed, solved with an intrinsic
\* input: bits 6, 11 and 12, bit 2, and bit 0 in the solver call
C21_Witness ==
  /\ pc = "flag_done"
  /\ cfg.fixDistCoeffs = <<48, 49, 48, 49, 57>>
  /\ cfg.fixPrincipalPoint
  /\ ~cfg.assumeZeroTangentDist
  /\ cfg.aspectRatio = 0
  /\ s.useIntrinsicInput
  /\ flag = 64 + 2048 + 4096 + 4
  /\ calibrateFlags = flag + 1

---------------------------------------------------------------------------
(* Claim about the index of the pre-sized collections, under SpecRun *)

\* C22: for a marker pattern in INTRINSIC or STEREO mode with a validated
\* configuration, at every detection the index into the camera's pre-sized
\* collection is within bounds, 0 <= vectorIndex < length, where the length is
\* nImages in INTRINSIC mode and nImages / 2 in STEREO mode and vectorIndex is
\* the list position i in INTRINSIC mode and i / 2 rounded down in STEREO
\* mode; no detection throws out of range, for every length of the image list
\* and every position at which reading stops.
C22_VectorIndexInBounds ==
  /\ [](pc # "out_of_range")
  /\ [][(Len(detections') > Len(detections) /\ s.calibrationPattern # "CHESSBOARD") =>
          LET cal == IF currentInCal' = "inCal" THEN inCal ELSE inCal2
              length == IF s.mode = "STEREO" THEN s.nImages \div 2 ELSE s.nImages
          IN  /\ s.mode \in {"INTRINSIC", "STEREO"}
              /\ Len(cal.imagePoints) = length
              /\ Len(cal.objectPoints) = length
              /\ 0 <= vectorIndex'
              /\ vectorIndex' < length
              /\ vectorIndex' = IF s.mode = "STEREO" THEN i \div 2 ELSE i]_vars

\* the last image of a STEREO marker run over four images has been detected
\* on the second set of camera B
C22_Witness ==
  /\ pc = "loop"
  /\ s.mode = "STEREO"
  /\ s.calibrationPattern = "ARUCO_SINGLE"
  /\ s.nImages = 4
  /\ Len(detections) = 4
  /\ currentInCal = "inCal2"
  /\ vectorIndex = 1
  /\ Len(inCal2.imagePoints) = 2
  /\ Len(inCal2.imagePoints[2]) > 0

=============================================================================
